---- MODULE Spec2Model ----
(***************************************************************************)
(* A model of the lazy-di resolution engine: ServiceKey / ServiceSelectorKey *)
(* (serviceKey.ts), ServiceFactory.singleton / oneShot (serviceFactory.ts), *)
(* ServiceSelector (serviceSelector.ts) and ServiceModule (serviceModule.ts):*)
(* from / constructor validation, get, dispose.                             *)
(*                                                                         *)
(* Promises are modelled by their state (pending / fulfilled / rejected);  *)
(* every await is a suspension point, and the continuation after it is an  *)
(* action of its own, so that all interleavings the event loop can produce *)
(* for some timing of the user's build functions are explored.  The code   *)
(* between two awaits is one atomic action.                                *)
(***************************************************************************)
EXTENDS Integers, Sequences, FiniteSets, TLC

\* ------------------------------------------------------------------ bounds
\* Longest entries list handed to ServiceModule.from by the environment.
MaxEntries == 2
\* Number of top-level module.get calls the environment issues.
MaxCalls == 2
\* Number of module.dispose calls the environment issues.
MaxDisposes == 1
\* Depth of nested synchronous get calls the engine's call stack holds.
MaxStack == 4
\* Number of selector.get calls the code of the services issues.
MaxSelectorGets == 1

\* ------------------------------------------------------------------- keys
\* new ServiceKey(name): a fresh symbol (the identity) and a display name.
ServiceKey(sym, name) ==
    [symbol |-> sym, name |-> name, selector |-> FALSE, values |-> <<>>]

\* The name a ServiceSelectorKey passes to super: `ServiceSelector[${values}]`,
\* where an array of key objects is rendered element-wise by Object.toString.
SelectorName(values) ==
    CASE Len(values) = 0 -> "ServiceSelector[]"
      [] Len(values) = 1 -> "ServiceSelector[[object Object]]"
      [] OTHER -> "ServiceSelector[[object Object],[object Object]]"

\* new ServiceSelectorKey(values): a ServiceKey that also owns its members.
ServiceSelectorKey(sym, values) ==
    [symbol |-> sym, name |-> SelectorName(values), selector |-> TRUE,
     values |-> values]

\* A test that takes every key for a plain key.
IsSelectorKey_Never(key) == FALSE

\* dependencyKey instanceof ServiceSelectorKey
IsSelectorKey(key) == key.selector

\* The keys of the fixtures.  KeyA2 shares KeyA's display name, not its symbol;
\* no factory provides KeyM.
KeyA == ServiceKey(1, "A")
KeyB == ServiceKey(2, "B")
KeyC == ServiceKey(3, "C")
KeyM == ServiceKey(4, "M")
KeyA2 == ServiceKey(5, "A")
KeyD == ServiceKey(8, "D")
SelAB == ServiceSelectorKey(6, <<KeyA, KeyB>>)
SelAM == ServiceSelectorKey(7, <<KeyA, KeyM>>)

PlainKeys == {KeyA, KeyB, KeyC, KeyM, KeyA2, KeyD}

\* -------------------------------------------------------------- factories
\* The object ServiceFactory.singleton returns (scope, provides, dependsOn,
\* initialize, dispose); its closure slots are the state variables
\* promisedInstance and resolvedInstance, indexed by the factory.  `given`
\* keeps what the options object of the call held besides provides, dependsOn
\* and initialize; the engine reads the other fields only.
Singleton(provides, dependsOn, scope) ==
    [kind |-> "singleton", provides |-> provides, dependsOn |-> dependsOn,
     scope |-> scope, hasDispose |-> TRUE,
     given |-> [dispose |-> TRUE, scope |-> scope]]

\* The object ServiceFactory.oneShot returns: provides, dependsOn and the
\* user's initialize, nothing else (no scope, no dispose).
OneShot(provides, dependsOn) ==
    [kind |-> "oneShot", provides |-> provides, dependsOn |-> dependsOn,
     scope |-> "none", hasDispose |-> FALSE,
     given |-> [dispose |-> FALSE, scope |-> "none"]]

\* ServiceFactory.oneShot called with an options object that holds more than
\* provides, dependsOn and initialize: the parameter destructures these three
\* and the object returned is built from them alone.
OneShotGiven(provides, dependsOn, given) ==
    [OneShot(provides, dependsOn) EXCEPT !.given = given]

\* The factory objects of the fixtures, by identity.
Factories ==
    <<  Singleton(KeyA, <<>>, "none"),            \* 1
        OneShot(KeyB, <<>>),                      \* 2
        Singleton(KeyC, <<KeyA, KeyB>>, "none"),  \* 3
        Singleton(KeyA, <<>>, "s1"),              \* 4  a second provider of A
        Singleton(KeyC, <<KeyC, KeyM>>, "none"),  \* 5  self and missing
        Singleton(KeyB, <<SelAM, KeyA2>>, "none"),\* 6  missing member, missing key
        OneShot(KeyA, <<KeyB, KeyA>>),            \* 7  self
        Singleton(KeyC, <<SelAB>>, "none"),       \* 8  selector dependency
        Singleton(KeyA, <<KeyC>>, "none"),        \* 9  closes the cycle C -> A -> C
        Singleton(KeyC, <<KeyA>>, "none"),        \* 10 with 9: a cycle of length 2
        Singleton(KeyD, <<KeyB, SelAB, KeyC>>, "s2"), \* 11 plain and selector dependencies
        OneShotGiven(KeyD, <<>>, [dispose |-> TRUE, scope |-> "s1"]),
                                                  \* 12 one-shot given a dispose function
        Singleton(KeyA2, <<>>, "none"),           \* 13 provides the other key named "A"
        Singleton(KeyD, <<>>, "none"),            \* 14 the shared leaf of a diamond
        Singleton(KeyB, <<KeyD>>, "none"),        \* 15 one side of the diamond
        OneShot(KeyC, <<KeyD>>),                  \* 16 the other side
        Singleton(KeyA, <<KeyB, KeyC>>, "none")   \* 17 the top of the diamond
    >>

FactoryIds == DOMAIN Factories

Provides(f) == Factories[f].provides
DependsOn(f) == Factories[f].dependsOn

\* ------------------------------------------------------------------ state
VARIABLES
    modules,           \* the ServiceModule objects constructed: each its factories
    fromCall,          \* the last ServiceModule.from call: entries and outcome
    tasks,             \* the invocations of ServiceModule.get, by call order
    builds,            \* the invocations of user build functions, by call order
    promisedInstance,  \* per singleton factory: the in-flight promise (a build)
    resolvedInstance,  \* per singleton factory: the cached value
    disposeCalls,      \* the user dispose functions called: <<factory, value>>
    nDispose           \* number of module.dispose calls so far

vars == <<modules, fromCall, tasks, builds, promisedInstance, resolvedInstance,
          disposeCalls, nDispose>>

resolveVars == <<tasks, builds, promisedInstance, resolvedInstance,
                 disposeCalls, nDispose>>

\* ------------------------------------------------------------------ values
None == 0
\* Values and failures are records of one shape, told apart by `type`.
Value(type, id, name, ref) == [type |-> type, id |-> id, name |-> name, ref |-> ref]
Undefined == Value("undefined", 0, "", 0)
\* The object the b-th build invocation returns: a fresh reference.
Obj(b) == Value("object", b, "", 0)
\* The failure the b-th build invocation raises.
Err(b) == Value("error", b, "", 0)
\* new ServiceFactoryNotFoundError(`Could not find a suitable factory for ${key.name}`)
ServiceFactoryNotFoundError(key) ==
    Value("ServiceFactoryNotFoundError", 0, key.name, 0)
\* The engine's RangeError when the synchronous recursion of get exhausts the stack.
RangeError == Value("RangeError", 0, "", 0)
\* new ServiceSelector(this, dependencyKey)
ServiceSelector(m, key) == Value("selector", key.symbol, "", m)

\* ------------------------------------------------- ServiceModule.from(entries)
\* An entry is a factory or a ServiceModule (given by its factories).
FactoryEntry(f) == [module |-> FALSE, factory |-> f, factories |-> <<>>]
ModuleEntry(fs) == [module |-> TRUE, factory |-> 0, factories |-> fs]

RECURSIVE flattened_ModulesLast(_)
\* Mutant of flattened: the factories of the module entries are put last.
flattened_ModulesLast(entries) ==
    LET plain == SelectSeq(entries, LAMBDA e : ~e.module)
        mods == SelectSeq(entries, LAMBDA e : e.module)
    IN  IF entries = <<>> THEN <<>>
        ELSE IF plain # <<>> /\ mods # <<>>
        THEN flattened_ModulesLast(plain) \o flattened_ModulesLast(mods)
        ELSE (IF Head(entries).module THEN Head(entries).factories
              ELSE <<Head(entries).factory>>)
             \o flattened_ModulesLast(Tail(entries))

RECURSIVE flattened(_)
\* entries.flatMap((e) => e instanceof ServiceModule ? e.factories : [e])
flattened(entries) ==
    IF entries = <<>> THEN <<>>
    ELSE (IF Head(entries).module THEN Head(entries).factories
          ELSE <<Head(entries).factory>>) \o flattened(Tail(entries))

\* Mutant of MapSet: the first factory registered for a key wins.
MapSet_FirstWins(map, f) ==
    IF \E i \in DOMAIN map : Provides(map[i]).symbol = Provides(f).symbol
    THEN map
    ELSE Append(map, f)

\* Mutant of MapSet: a key already present is removed and added again at the
\* end.
MapSet_Reinsert(map, f) ==
    Append(SelectSeq(map, LAMBDA g : Provides(g).symbol # Provides(f).symbol), f)

\* Map.set(f.provides.symbol, f): a key already present keeps its place in the
\* iteration order and takes the new value; a new key is added at the end.
MapSet(map, f) ==
    IF \E i \in DOMAIN map : Provides(map[i]).symbol = Provides(f).symbol
    THEN [i \in DOMAIN map |->
            IF Provides(map[i]).symbol = Provides(f).symbol THEN f ELSE map[i]]
    ELSE Append(map, f)

RECURSIVE byKeyFrom(_, _)
\* for (const f of flattened) byKey.set(f.provides.symbol, f)
byKeyFrom(map, flat) ==
    IF flat = <<>> THEN map
    ELSE byKeyFrom(MapSet(map, Head(flat)), Tail(flat))

\* Array.from(byKey.values())
byKey(flat) == byKeyFrom(<<>>, flat)

\* factories.some((factory) => factory.provides?.symbol === key?.symbol)
\* Mutant of isRegistered: every key counts as registered.
isRegistered_Always(key, factories) == TRUE

isRegistered(key, factories) ==
    \E i \in DOMAIN factories : Provides(factories[i]).symbol = key.symbol

\* Mutant of recursive: only the first dependency is compared.
recursive_FirstOnly(f) ==
    DependsOn(f) # <<>> /\ DependsOn(f)[1] = Provides(f)

\* factory.dependsOn.some((dependencyKey) => dependencyKey === factory.provides)
recursive(f) ==
    \E i \in DOMAIN DependsOn(f) : DependsOn(f)[i] = Provides(f)

ServiceModuleInitError(text, subject, list) ==
    [name |-> "ServiceModuleInitError", text |-> text, subject |-> subject,
     list |-> list]

NoError == [name |-> "none", text |-> "", subject |-> "", list |-> <<>>]

\* checkRecursiveDependencies(factory): the error thrown, or NoError.
checkRecursiveDependencies(f) ==
    IF recursive(f)
    THEN ServiceModuleInitError("Recursive dependency detected on: ",
                                Provides(f).name, <<>>)
    ELSE NoError

RECURSIVE missingOf(_, _)
\* the keys of `keys`, in order, that no factory of `factories` provides
missingOf(keys, factories) ==
    IF keys = <<>> THEN <<>>
    ELSE (IF isRegistered(Head(keys), factories) THEN <<>> ELSE <<Head(keys)>>)
         \o missingOf(Tail(keys), factories)

\* Mutant of missingDependencies: a selector key is looked up like a plain key.
missingDependencies_NoSelector(deps, factories) == missingOf(deps, factories)

RECURSIVE missingDependencies_FirstOnly(_, _)
\* Mutant of missingDependencies: the scan stops at the first missing key.
missingDependencies_FirstOnly(deps, factories) ==
    IF deps = <<>> THEN <<>>
    ELSE LET here == IF IsSelectorKey(Head(deps))
                     THEN missingOf(Head(deps).values, factories)
                     ELSE missingOf(<<Head(deps)>>, factories)
         IN  IF here # <<>> THEN <<Head(here)>>
             ELSE missingDependencies_FirstOnly(Tail(deps), factories)

RECURSIVE missingDependencies(_, _)
\* factory.dependsOn.forEach(...): a selector key contributes its unregistered
\* members, a plain key itself when unregistered.
missingDependencies(deps, factories) ==
    IF deps = <<>> THEN <<>>
    ELSE (IF IsSelectorKey(Head(deps))
          THEN missingOf(Head(deps).values, factories)
          ELSE missingOf(<<Head(deps)>>, factories))
         \o missingDependencies(Tail(deps), factories)

\* checkMissingDependencies(factory, factories): the error thrown, or NoError.
checkMissingDependencies(f, factories) ==
    LET missing == missingDependencies(DependsOn(f), factories)
    IN  IF missing = <<>> THEN NoError
        ELSE ServiceModuleInitError(" will fail because it depends on:",
                                    Provides(f).name,
                                    [i \in DOMAIN missing |-> missing[i].name])

\* The two checks in the other order.
checkFactory_MissingFirst(f, factories) ==
    IF checkMissingDependencies(f, factories) # NoError
    THEN checkMissingDependencies(f, factories)
    ELSE checkRecursiveDependencies(f)

\* The two checks the constructor runs for one factory, in its order.
checkFactory(f, factories) ==
    IF checkRecursiveDependencies(f) # NoError
    THEN checkRecursiveDependencies(f)
    ELSE checkMissingDependencies(f, factories)

RECURSIVE constructorFrom_Last(_, _)
\* A constructor that checks every factory and reports the last violation.
constructorFrom_Last(i, factories) ==
    IF i > Len(factories) THEN NoError
    ELSE IF constructorFrom_Last(i + 1, factories) # NoError
         THEN constructorFrom_Last(i + 1, factories)
         ELSE checkFactory(factories[i], factories)

RECURSIVE constructorFrom(_, _)
\* factories.forEach((factory) => { checkRecursive...; checkMissing... }):
\* the first error thrown, or NoError.
constructorFrom(i, factories) ==
    IF i > Len(factories) THEN NoError
    ELSE IF checkFactory(factories[i], factories) # NoError
         THEN checkFactory(factories[i], factories)
         ELSE constructorFrom(i + 1, factories)

\* new ServiceModule(factories)
constructor(factories) == constructorFrom(1, factories)

\* ServiceModule.from(entries): the module returned, or the error thrown.
from(entries) ==
    LET factories == byKey(flattened(entries))
        error == constructor(factories)
    IN  [ok |-> error = NoError, factories |-> factories, error |-> error]

\* ---------------------------------------------------- the environment's inputs
\* The factories the environment hands to ServiceModule.from.
FromPool == FactoryIds

SeqsUpTo(S, n) == UNION {[1..k -> S] : k \in 0..n}

\* What an entries list may hold: a fixture factory or a module built before.
FromEntries ==
    {FactoryEntry(f) : f \in FromPool}
        \cup {ModuleEntry(modules[i]) : i \in DOMAIN modules}

NotCalled == [called |-> FALSE, entries |-> <<>>, result |-> from(<<>>)]

\* ------------------------------------------------------------------ get
\* A comparison of display names.
isSuitable_ByName(key, f) == Provides(f).name = key.name

\* factory?.provides?.symbol === key?.symbol
isSuitable(key, f) == Provides(f).symbol = key.symbol

\* A lookup by display name instead of identity.
findFactory_ByName(key, factories) ==
    IF \E i \in DOMAIN factories : Provides(factories[i]).name = key.name
    THEN factories[CHOOSE i \in DOMAIN factories :
                     /\ Provides(factories[i]).name = key.name
                     /\ \A j \in 1..(i - 1) : Provides(factories[j]).name # key.name]
    ELSE None

\* this.factories.find((factory) => isSuitable(key, factory)), None when absent
findFactory(key, factories) ==
    IF \E i \in DOMAIN factories : isSuitable(key, factories[i])
    THEN factories[CHOOSE i \in DOMAIN factories :
                     /\ isSuitable(key, factories[i])
                     /\ \A j \in 1..(i - 1) : ~isSuitable(key, factories[j])]
    ELSE None

BuildsOf(f) == {b \in DOMAIN builds : builds[b].fac = f}

Settled(task) == task.st \in {"fulfilled", "rejected"}

\* One invocation of ServiceModule.get: its promise (st, val), the promise
\* array handed to Promise.all (deps) and Promise.all's first rejection (rej).
\* History, read by the claims only: `done`, the builds of the call's factory
\* that had completed when the call was made, `alone`, whether every get
\* call made before the enclosing top-level call had settled by then, and
\* `via`, the ServiceSelector the call was made through (Undefined for a call
\* on the module) with the key the caller asked for, and `epoch`, the number
\* of module.dispose calls made before the call.
NewTask(m, key, f, parent) ==
    [module |-> m, key |-> key, fac |-> f, parent |-> parent, deps |-> <<>>,
     rej |-> Undefined, st |-> "awaitDeps", on |-> None, val |-> Undefined,
     via |-> [selector |-> Undefined, key |-> key],
     epoch |-> nDispose,
     done |-> {b \in BuildsOf(f) : builds[b].st # "pending"},
     alone |-> \A t \in DOMAIN tasks : Settled(tasks[t])]

\* Mutant of NoteRejection: Promise.all never rejects.
NoteRejection_Ignored(ts, parent, err) == ts

\* Promise.all rejects with the first of its promises to reject.
NoteRejection(ts, parent, err) ==
    IF parent # 0 /\ ts[parent].st = "awaitDeps" /\ ts[parent].rej = Undefined
    THEN [ts EXCEPT ![parent].rej = err]
    ELSE ts

\* A get that swallows the failure and resolves to undefined.
Reject_AsUndefined(ts, t, err) ==
    [ts EXCEPT ![t].st = "fulfilled", ![t].val = Undefined]

\* The promise of get call t rejects with err.
Reject(ts, t, err) ==
    NoteRejection([ts EXCEPT ![t].st = "rejected", ![t].val = err],
                  ts[t].parent, err)

\* The promise of get call t resolves to v.
Fulfil(ts, t, v) == [ts EXCEPT ![t].st = "fulfilled", ![t].val = v]

RECURSIVE StartGet(_, _, _, _, _)
RECURSIVE MapDependsOn(_, _, _, _, _, _)

\* The synchronous part of get(key), up to `await Promise.all(...)`: the factory
\* lookup, then one promise per dependency, a nested get for a plain key.
StartGet(ts, m, key, parent, depth) ==
    LET id == Len(ts) + 1
        f == findFactory(key, modules[m])
    IN  IF depth > MaxStack
        THEN Reject(Append(ts, NewTask(m, key, None, parent)), id, RangeError)
        ELSE IF f = None
        THEN Reject(Append(ts, NewTask(m, key, None, parent)), id,
                    ServiceFactoryNotFoundError(key))
        ELSE MapDependsOn(Append(ts, NewTask(m, key, f, parent)), m, id,
                          DependsOn(f), 1, depth)

\* factory.dependsOn.map((dependencyKey) => ...), from the i-th key on
MapDependsOn(ts, m, id, dependsOn, i, depth) ==
    IF i > Len(dependsOn) THEN ts
    ELSE IF IsSelectorKey(dependsOn[i])
    THEN MapDependsOn(
            [ts EXCEPT ![id].deps =
                Append(@, [task |-> 0, value |-> ServiceSelector(m, dependsOn[i])])],
            m, id, dependsOn, i + 1, depth)
    ELSE LET child == Len(ts) + 1
             ts1 == StartGet(ts, m, dependsOn[i], id, depth + 1)
         IN  MapDependsOn(
                [ts1 EXCEPT ![id].deps = Append(@, [task |-> child, value |-> Undefined])],
                m, id, dependsOn, i + 1, depth)

TopLevel == {t \in DOMAIN tasks : tasks[t].parent = 0}

\* The get calls made on the module by its user, and those made through a
\* ServiceSelector by the code of a service.
ModuleCalls == {t \in TopLevel : tasks[t].via.selector = Undefined}
SelectorCalls == {t \in TopLevel : tasks[t].via.selector # Undefined}

\* The get calls whose Promise.all was given no promise of a nested get call:
\* its result is ready at once, and the continuation after the await is a
\* microtask queued when the call was made.  The event loop runs the queued
\* microtasks, in the order queued, before the caller's next call and before
\* the completion of any build function's promise.
Microtasks ==
    {t \in DOMAIN tasks :
        /\ tasks[t].st = "awaitDeps"
        /\ \A i \in DOMAIN tasks[t].deps : tasks[t].deps[i].task = 0}

\* The environment calls module.get(key) on modules[m].
Get(m, key) ==
    /\ Cardinality(ModuleCalls) < MaxCalls
    /\ Microtasks = {}
    /\ tasks' = StartGet(tasks, m, key, 0, 1)
    /\ UNCHANGED <<modules, fromCall, builds, promisedInstance, resolvedInstance,
                   disposeCalls, nDispose>>

\* The resolved values in the opposite order.
Dependencies_Reversed(t) ==
    [i \in DOMAIN tasks[t].deps |->
        LET j == Len(tasks[t].deps) + 1 - i
        IN  IF tasks[t].deps[j].task = 0 THEN tasks[t].deps[j].value
            ELSE tasks[tasks[t].deps[j].task].val]

\* The values Promise.all resolved to, in the order of dependsOn.
Dependencies(t) ==
    [i \in DOMAIN tasks[t].deps |->
        IF tasks[t].deps[i].task = 0 THEN tasks[t].deps[i].value
        ELSE tasks[tasks[t].deps[i].task].val]

\* A get that awaits its first dependency only.
AllDependenciesResolved_First(t) ==
    IF tasks[t].deps = <<>> THEN TRUE
    ELSE IF tasks[t].deps[1].task = 0 THEN TRUE
    ELSE tasks[tasks[t].deps[1].task].st = "fulfilled"

AllDependenciesResolved(t) ==
    \A i \in DOMAIN tasks[t].deps :
        IF tasks[t].deps[i].task = 0 THEN TRUE
        ELSE tasks[tasks[t].deps[i].task].st = "fulfilled"

\* Mutant of HasResolvedInstance: the cached value is never found.
HasResolvedInstance_Never(f) == FALSE

\* Mutant of HasPromisedInstance: the in-flight promise is never found.
HasPromisedInstance_Never(f) == FALSE

\* if (resolvedInstance !== undefined)
HasResolvedInstance(f) == resolvedInstance[f] # Undefined

\* if (promisedInstance !== undefined)
HasPromisedInstance(f) == promisedInstance[f] # None

\* The user's build function is called by get call t with args; it throws
\* (throws = TRUE) or returns a value or promise that completes later.
\* History, read by the claims only: `epoch`, the number of module.dispose
\* calls made before the invocation.
NewBuild(f, t, args, throws) ==
    [fac |-> f, by |-> t, args |-> args, epoch |-> nDispose,
     st |-> IF throws THEN "rejected" ELSE "pending",
     val |-> IF throws THEN Err(Len(builds) + 1) ELSE Undefined]

\* What the user's build functions may do when called.
BuildThrows == BOOLEAN

\* Mutant of Follow: a rejected promise resolves the get call with the failure.
Follow_Swallow(ts, t, b, bs) ==
    IF bs[b].st = "pending"
    THEN [ts EXCEPT ![t].st = "awaitInit", ![t].on = b]
    ELSE Fulfil(ts, t, bs[b].val)

\* get call t returns the promise of build b: its own promise follows it (a
\* promise settled already is followed at once, a pending one when it settles).
Follow(ts, t, b, bs) ==
    IF bs[b].st = "pending"
    THEN [ts EXCEPT ![t].st = "awaitInit", ![t].on = b]
    ELSE IF bs[b].st = "fulfilled" THEN Fulfil(ts, t, bs[b].val)
    ELSE Reject(ts, t, bs[b].val)

\* The initialize of a ServiceFactory.singleton object, called by get call t.
SingletonInitialize(t, f, args) ==
    IF HasResolvedInstance(f)
    THEN /\ tasks' = Fulfil(tasks, t, resolvedInstance[f])
         /\ UNCHANGED <<builds, promisedInstance, resolvedInstance>>
    ELSE IF HasPromisedInstance(f)
    THEN /\ tasks' = Follow(tasks, t, promisedInstance[f], builds)
         /\ UNCHANGED <<builds, promisedInstance, resolvedInstance>>
    ELSE \E throws \in BuildThrows :
         \* the async arrow runs up to its await: the user's function is called;
         \* when that throws, finally clears the slot before the assignment
         \* stores the (rejected) promise in it
         /\ builds' = Append(builds, NewBuild(f, t, args, throws))
         /\ promisedInstance' = [promisedInstance EXCEPT ![f] = Len(builds) + 1]
         /\ tasks' = Follow(tasks, t, Len(builds) + 1,
                             Append(builds, NewBuild(f, t, args, throws)))
         /\ UNCHANGED resolvedInstance

\* The initialize of a ServiceFactory.oneShot object: the user's function.
OneShotInitialize(t, f, args) ==
    \E throws \in BuildThrows :
        /\ builds' = Append(builds, NewBuild(f, t, args, throws))
        /\ tasks' = Follow(tasks, t, Len(builds) + 1,
                            Append(builds, NewBuild(f, t, args, throws)))
        /\ UNCHANGED <<promisedInstance, resolvedInstance>>

\* Mutant of Initialize: a one-shot factory caches like a singleton.
Initialize_AlwaysSingleton(t, f, args) == SingletonInitialize(t, f, args)

\* return factory.initialize(...dependencies)
Initialize(t, f, args) ==
    IF Factories[f].kind = "singleton"
    THEN SingletonInitialize(t, f, args)
    ELSE OneShotInitialize(t, f, args)

\* get call t resumes after `await Promise.all(...)`: it rejects with
\* Promise.all's rejection, or calls the factory's initialize.
ContinueGet(t) ==
    /\ tasks[t].st = "awaitDeps"
    /\ \A u \in Microtasks : t <= u
    /\ IF tasks[t].rej # Undefined
       THEN /\ tasks' = Reject(tasks, t, tasks[t].rej)
            /\ UNCHANGED <<builds, promisedInstance, resolvedInstance>>
       ELSE /\ AllDependenciesResolved(t)
            /\ Initialize(t, tasks[t].fac, Dependencies(t))
    /\ UNCHANGED <<modules, fromCall, disposeCalls, nDispose>>

RECURSIVE SettleFollowers(_, _, _, _)
\* Every get call that follows build b settles as b did, from call i on.
SettleFollowers(ts, i, b, bs) ==
    IF i > Len(ts) THEN ts
    ELSE IF ts[i].st = "awaitInit" /\ ts[i].on = b
    THEN SettleFollowers(Follow(ts, i, b, bs), i + 1, b, bs)
    ELSE SettleFollowers(ts, i + 1, b, bs)

\* What the user's build functions may complete with: a service object, the
\* value undefined (initialize: () => T | Promise<T>, T unconstrained), or a
\* failure.
BuildResults == {"object", "undefined", "error"}

BuildResult(b, result) ==
    CASE result = "object" -> Obj(b)
      [] result = "undefined" -> Undefined
      [] OTHER -> Err(b)

\* The promise the user's build function returned completes; for a singleton
\* the async arrow resumes after its await: it stores the value, and finally
\* clears the in-flight slot.  The get calls following the build settle.
BuildCompletes(b, result) ==
    /\ builds[b].st = "pending"
    /\ Microtasks = {}
    /\ builds' = [builds EXCEPT
                    ![b].st = IF result = "error" THEN "rejected" ELSE "fulfilled",
                    ![b].val = BuildResult(b, result)]
    /\ tasks' = SettleFollowers(tasks, 1, b, builds')
    /\ IF Factories[builds[b].fac].kind = "singleton"
       THEN /\ resolvedInstance' =
                  IF result = "error" THEN resolvedInstance
                  ELSE [resolvedInstance EXCEPT
                          ![builds[b].fac] = BuildResult(b, result)]
            /\ promisedInstance' = [promisedInstance EXCEPT ![builds[b].fac] = None]
       ELSE UNCHANGED <<promisedInstance, resolvedInstance>>
    /\ UNCHANGED <<modules, fromCall, disposeCalls, nDispose>>

\* ---------------------------------------------------------- ServiceSelector
\* The selector keys of the fixtures.
SelectorKeys == {SelAB, SelAM}

\* selector.selectorKey
SelectorKeyOf(selector) == CHOOSE k \in SelectorKeys : k.symbol = selector.id

\* A selector that serves the members of its selector key only.
SelectorGet_MembersOnly(ts, selector, key) ==
    IF \E i \in DOMAIN SelectorKeyOf(selector).values :
            SelectorKeyOf(selector).values[i].symbol = key.symbol
    THEN StartGet(ts, selector.ref, key, 0, 1)
    ELSE Reject(Append(ts, NewTask(selector.ref, key, None, 0)), Len(ts) + 1,
                ServiceFactoryNotFoundError(key))

\* A selector that serves its first member whatever key it is asked for.
SelectorGet_FirstMember(ts, selector, key) ==
    StartGet(ts, selector.ref, SelectorKeyOf(selector).values[1], 0, 1)

\* ServiceSelector.get(key): return this.serviceModule.get(key)
SelectorGet(ts, selector, key) == StartGet(ts, selector.ref, key, 0, 1)

\* The code of the service of build b, which received a ServiceSelector as
\* its i-th dependency, calls selector.get(key).
CallSelectorGet(b, i, key) ==
    /\ i \in DOMAIN builds[b].args
    /\ builds[b].args[i].type = "selector"
    /\ Cardinality(SelectorCalls) < MaxSelectorGets
    /\ Microtasks = {}
    /\ tasks' = [SelectorGet(tasks, builds[b].args[i], key) EXCEPT
                    ![Len(tasks) + 1].via =
                        [selector |-> builds[b].args[i], key |-> key]]
    /\ UNCHANGED <<modules, fromCall, builds, promisedInstance, resolvedInstance,
                   disposeCalls, nDispose>>

\* --------------------------------------------------------------- dispose
\* scope ? this.factories.filter((f) => f.scope === scope) : this.factories
\* A dispose that ignores its scope argument.
Selected_All(factories, scope) == factories

Selected(factories, scope) ==
    SelectSeq(factories, LAMBDA f : scope = "none" \/ Factories[f].scope = scope)

RECURSIVE DisposeAll_Always(_, _)
\* A singleton dispose that calls the user's dispose whether or not a value
\* is cached.
DisposeAll_Always(fs, s) ==
    IF fs = <<>> THEN s
    ELSE LET f == Head(fs)
         IN  IF ~Factories[f].hasDispose THEN DisposeAll_Always(Tail(fs), s)
             ELSE DisposeAll_Always(Tail(fs),
                    [s EXCEPT !.promised[f] = None,
                              !.resolved[f] = Undefined,
                              !.calls = Append(s.calls, <<f, s.resolved[f]>>)])

RECURSIVE DisposeAll(_, _)
\* factories.forEach((factory) => factory.dispose?.()) on the slots
\* s = [promised, resolved, calls, thrower, threw]; the dispose of a singleton
\* calls the user's dispose with the cached value when there is one, then
\* clears both slots.  When the user's dispose function throws (that of the
\* factory s.thrower does), the assignments after the call are not reached and
\* the exception ends the forEach.
DisposeAll(fs, s) ==
    IF fs = <<>> THEN s
    ELSE LET f == Head(fs)
         IN  IF ~Factories[f].hasDispose THEN DisposeAll(Tail(fs), s)
             ELSE IF s.resolved[f] # Undefined /\ f = s.thrower
             THEN [s EXCEPT !.calls = Append(s.calls, <<f, s.resolved[f]>>),
                            !.threw = TRUE]
             ELSE DisposeAll(Tail(fs),
                    [s EXCEPT !.promised[f] = None,
                              !.resolved[f] = Undefined,
                              !.calls = IF s.resolved[f] # Undefined
                                        THEN Append(s.calls, <<f, s.resolved[f]>>)
                                        ELSE s.calls])

\* The slots and the record of user dispose calls as a sweep finds them; the
\* user's dispose function of the factory thrower throws (None: none does).
Slots(thrower) ==
    [promised |-> promisedInstance, resolved |-> resolvedInstance,
     calls |-> disposeCalls, thrower |-> thrower, threw |-> FALSE]

\* What the user's dispose functions may do when called: all return, or that
\* of one factory of the module throws.
DisposeThrowers(m) == {None} \cup {modules[m][i] : i \in DOMAIN modules[m]}

\* The environment calls module.dispose(scope) on modules[m] ("none": no scope).
Dispose(m, scope) ==
    /\ nDispose < MaxDisposes
    /\ Microtasks = {}
    /\ \E thrower \in DisposeThrowers(m) :
         LET s == DisposeAll(Selected(modules[m], scope), Slots(thrower))
         IN  /\ promisedInstance' = s.promised
             /\ resolvedInstance' = s.resolved
             /\ disposeCalls' = s.calls
    /\ nDispose' = nDispose + 1
    /\ UNCHANGED <<modules, fromCall, tasks, builds>>

\* ------------------------------------------------------- specifications
\* The environment calls ServiceModule.from(entries); it keeps the first module
\* returned to it, and may pass that module in the entries of later calls.
\* A from that merges into the first module of its entries instead of
\* building a new array.
ServiceModuleFrom_InPlace(entries) ==
    LET result == from(entries)
    IN  /\ ~fromCall.called
        /\ fromCall' = [called |-> TRUE, entries |-> entries, result |-> result]
        /\ modules' = IF result.ok /\ (modules = <<>> \/ \E i \in DOMAIN entries :
                                                            entries[i].module)
                       THEN <<result.factories>>
                       ELSE modules
        /\ UNCHANGED resolveVars

\* A from that resets the factories it is given: it disposes every singleton
\* of the new module.
ServiceModuleFrom_Resetting(entries) ==
    LET result == from(entries)
    IN  /\ ~fromCall.called
        /\ fromCall' = [called |-> TRUE, entries |-> entries, result |-> result]
        /\ modules' = IF result.ok /\ modules = <<>> THEN <<result.factories>>
                       ELSE modules
        /\ promisedInstance' =
              [f \in FactoryIds |->
                  IF \E i \in DOMAIN result.factories : result.factories[i] = f
                  THEN None ELSE promisedInstance[f]]
        /\ resolvedInstance' =
              [f \in FactoryIds |->
                  IF \E i \in DOMAIN result.factories : result.factories[i] = f
                  THEN Undefined ELSE resolvedInstance[f]]
        /\ UNCHANGED <<tasks, builds, disposeCalls, nDispose>>

ServiceModuleFrom(entries) ==
    LET result == from(entries)
    IN  /\ ~fromCall.called
        /\ fromCall' = [called |-> TRUE, entries |-> entries, result |-> result]
        /\ modules' = IF result.ok /\ modules = <<>> THEN <<result.factories>>
                       ELSE modules
        /\ UNCHANGED resolveVars

\* The caller has taken the module, or caught the error: it may call again.
FromReturns ==
    /\ fromCall.called
    /\ fromCall' = NotCalled
    /\ UNCHANGED <<modules, resolveVars>>

InitResolve ==
    /\ tasks = <<>>
    /\ builds = <<>>
    /\ promisedInstance = [f \in FactoryIds |-> None]
    /\ resolvedInstance = [f \in FactoryIds |-> Undefined]
    /\ disposeCalls = <<>>
    /\ nDispose = 0

\* Construction: no module yet; the environment builds modules from the
\* fixture factories and from the module it built last.
InitFrom ==
    /\ modules = <<>>
    /\ fromCall = NotCalled
    /\ InitResolve

NextFrom ==
    \/ \E entries \in SeqsUpTo(FromEntries, MaxEntries) : ServiceModuleFrom(entries)
    \/ FromReturns

SpecFrom == InitFrom /\ [][NextFrom]_vars

\* Resolution: moduleX = from([1, 2, 3]) and the module under test
\* from([moduleX, 4]), in which factory 4 overrides moduleX's factory 1 for A.
ModuleX == from(<<FactoryEntry(1), FactoryEntry(2), FactoryEntry(3)>>)
Merged == from(<<ModuleEntry(ModuleX.factories), FactoryEntry(4)>>)

Init ==
    /\ modules = <<Merged.factories>>
    /\ fromCall = [called |-> TRUE,
                   entries |-> <<ModuleEntry(ModuleX.factories), FactoryEntry(4)>>,
                   result |-> Merged]
    /\ InitResolve

GetKeys == {KeyA, KeyB, KeyC}

Next ==
    \/ \E key \in GetKeys : Get(1, key)
    \/ \E t \in DOMAIN tasks : ContinueGet(t)
    \/ \E b \in DOMAIN builds : \E result \in BuildResults : BuildCompletes(b, result)
    \/ Dispose(1, "none")

Spec == Init /\ [][Next]_vars

\* The get calls and the invocations of build functions that can exist: a
\* get(C) makes three get calls and three invocations at most.
MaxTasks == 3 * MaxCalls
MaxBuilds == 3 * MaxCalls

\* The event loop runs every continuation that is ready, and every promise a
\* build function returned completes.
Fairness ==
    /\ \A t \in 1..MaxTasks : WF_vars(t \in DOMAIN tasks /\ ContinueGet(t))
    /\ \A b \in 1..MaxBuilds :
          WF_vars(b \in DOMAIN builds
                    /\ \E result \in BuildResults : BuildCompletes(b, result))

SpecLive == Spec /\ Fairness

\* Construction interleaved with use: the environment calls ServiceModule.from
\* before and while the first module it obtained is in use, with entries that
\* pass validation and entries that fail it.
LazyEntries ==
    {<<ModuleEntry(ModuleX.factories), FactoryEntry(4)>>,
     <<FactoryEntry(1), FactoryEntry(5)>>,
     <<FactoryEntry(4), FactoryEntry(3)>>}

NextLazy ==
    \/ \E entries \in LazyEntries : ServiceModuleFrom(entries)
    \/ FromReturns
    \/ modules # <<>> /\ Next

SpecLazy == InitFrom /\ [][NextLazy]_vars

\* Scoped disposal: the module of Spec, whose factory for A is tagged with the
\* scope s1 and whose factory for C has no scope; the user disposes the whole
\* module, the scope s1, or a scope s2 that tags no factory of the module.
Scopes == {"none", "s1", "s2"}

NextScope ==
    \/ \E key \in GetKeys : Get(1, key)
    \/ \E t \in DOMAIN tasks : ContinueGet(t)
    \/ \E b \in DOMAIN builds : \E result \in BuildResults : BuildCompletes(b, result)
    \/ \E scope \in Scopes : Dispose(1, scope)

SpecScope == Init /\ [][NextScope]_vars

\* One-shot factories and disposal: a module with a singleton (A), a one-shot
\* factory created without a dispose function (B) and one created with a
\* dispose function (D).
OneShotModule == from(<<FactoryEntry(1), FactoryEntry(2), FactoryEntry(12)>>)

InitOneShot ==
    /\ modules = <<OneShotModule.factories>>
    /\ fromCall = [called |-> TRUE,
                   entries |-> <<FactoryEntry(1), FactoryEntry(2), FactoryEntry(12)>>,
                   result |-> OneShotModule]
    /\ InitResolve

OneShotGetKeys == {KeyA, KeyB, KeyD}

NextOneShot ==
    \/ \E key \in OneShotGetKeys : Get(1, key)
    \/ \E t \in DOMAIN tasks : ContinueGet(t)
    \/ \E b \in DOMAIN builds : \E result \in BuildResults : BuildCompletes(b, result)
    \/ Dispose(1, "none")

SpecOneShot == InitOneShot /\ [][NextOneShot]_vars

\* Key identity: the environment builds its module from the factory for KeyA,
\* the factory for KeyA2 (another key named "A") and a factory that depends on
\* KeyA, then asks the module for both keys.
KeyEntries == {FactoryEntry(1), FactoryEntry(13), FactoryEntry(10)}

KeyGetKeys == {KeyA, KeyA2, KeyC}

NextKeys ==
    \/ \E entries \in SeqsUpTo(KeyEntries, MaxEntries) : ServiceModuleFrom(entries)
    \/ FromReturns
    \/ modules # <<>> /\ \E key \in KeyGetKeys : Get(1, key)
    \/ \E t \in DOMAIN tasks : ContinueGet(t)
    \/ \E b \in DOMAIN builds : \E result \in BuildResults : BuildCompletes(b, result)

SpecKeys == InitFrom /\ [][NextKeys]_vars

\* A module in use and a second one derived from it: the environment builds
\* its module, uses it, and calls ServiceModule.from([module, f1]), which
\* overrides the module's factory for A in the new module.
FrozenEntries ==
    {<<ModuleEntry(ModuleX.factories), FactoryEntry(4)>>}
        \cup {<<ModuleEntry(modules[i]), FactoryEntry(1)>> : i \in DOMAIN modules}

NextFrozen ==
    \/ \E entries \in FrozenEntries : ServiceModuleFrom(entries)
    \/ FromReturns
    \/ modules # <<>> /\ Next

SpecFrozen == InitFrom /\ [][NextFrozen]_vars

\* A cycle of length two: the environment builds a module from the factories
\* 9 (A dependsOn C) and 10 (C dependsOn A) and the one-shot factory 2 (B),
\* and gets A, C and B.
CycleEntries == <<FactoryEntry(9), FactoryEntry(10), FactoryEntry(2)>>

CycleGetKeys == {KeyA, KeyC, KeyB}

NextCycle ==
    \/ ServiceModuleFrom(CycleEntries)
    \/ FromReturns
    \/ modules # <<>> /\ \E key \in CycleGetKeys : Get(1, key)
    \/ \E t \in DOMAIN tasks : ContinueGet(t)
    \/ \E b \in DOMAIN builds : \E result \in BuildResults : BuildCompletes(b, result)

SpecCycle == InitFrom /\ [][NextCycle]_vars

\* Selectors: a module with a consumer of a selector key (C), a consumer of
\* plain and selector keys (D) and the members of the selector key (A, B).
SelModule == from(<<FactoryEntry(1), FactoryEntry(2), FactoryEntry(8),
                    FactoryEntry(11)>>)

InitSel ==
    /\ modules = <<SelModule.factories>>
    /\ fromCall = [called |-> TRUE,
                   entries |-> <<FactoryEntry(1), FactoryEntry(2),
                                 FactoryEntry(8), FactoryEntry(11)>>,
                   result |-> SelModule]
    /\ InitResolve

\* The keys the user asks the module for: the consumer D, which brings the
\* consumer C with it, and KeyA2, which has the name of a registered key and
\* another identity.  The user never asks for a member of the selector key.
SelGetKeys == {KeyD, KeyA2}

\* The keys the code of a service asks its selector for: members (A, B), a
\* registered key that is no member (C), an unregistered key (M).
SelectorGetKeys == {KeyA, KeyB, KeyC, KeyM}

NextSel ==
    \/ \E key \in SelGetKeys : Get(1, key)
    \/ \E t \in DOMAIN tasks : ContinueGet(t)
    \/ \E b \in DOMAIN builds : \E result \in BuildResults : BuildCompletes(b, result)
    \/ \E b \in DOMAIN builds : \E i \in DOMAIN builds[b].args :
          \E key \in SelectorGetKeys : CallSelectorGet(b, i, key)

SpecSel == InitSel /\ [][NextSel]_vars

\* Two modules that contain the same factory objects: r1 = from([1, 2]) and
\* r2 = from([r1, 3]); the user holds both and uses both.
SharedR1 == from(<<FactoryEntry(1), FactoryEntry(2)>>)
SharedEntries == <<ModuleEntry(SharedR1.factories), FactoryEntry(3)>>
SharedR2 == from(SharedEntries)

InitShared ==
    /\ modules = <<SharedR1.factories, SharedR2.factories>>
    /\ fromCall = [called |-> TRUE, entries |-> SharedEntries, result |-> SharedR2]
    /\ InitResolve

\* The keys the user asks the two modules for: the shared singleton A, and C,
\* which only the second module provides.
SharedGetKeys == {KeyA, KeyC}

NextShared ==
    \/ \E m \in DOMAIN modules : \E key \in SharedGetKeys : Get(m, key)
    \/ \E t \in DOMAIN tasks : ContinueGet(t)
    \/ \E b \in DOMAIN builds : \E result \in BuildResults : BuildCompletes(b, result)
    \/ \E m \in DOMAIN modules : Dispose(m, "none")

SpecShared == InitShared /\ [][NextShared]_vars

\* A diamond: A depends on B and C, B and C both depend on the singleton D.
DiamondEntries == <<FactoryEntry(14), FactoryEntry(15), FactoryEntry(16),
                    FactoryEntry(17)>>
DiamondModule == from(DiamondEntries)

InitDiamond ==
    /\ modules = <<DiamondModule.factories>>
    /\ fromCall = [called |-> TRUE, entries |-> DiamondEntries,
                   result |-> DiamondModule]
    /\ InitResolve

\* The user asks the fresh module for the top of the diamond, once, and at
\* any time later for its shared leaf.
NextDiamond ==
    \/ tasks = <<>> /\ Get(1, KeyA)
    \/ tasks # <<>> /\ Get(1, KeyD)
    \/ \E t \in DOMAIN tasks : ContinueGet(t)
    \/ \E b \in DOMAIN builds : \E result \in BuildResults : BuildCompletes(b, result)
    \/ Dispose(1, "none")

SpecDiamond == InitDiamond /\ [][NextDiamond]_vars

\* ================================================================ claims
Range(seq) == {seq[i] : i \in DOMAIN seq}

\* The factories list the last from call validated.
Validated == fromCall.result.factories

\* (a) the factory at place i does not depend on its own provided key
NoSelfDependency(fs, i) == Provides(fs[i]) \notin Range(DependsOn(fs[i]))

\* The keys the factory at place i needs and no factory of fs provides: its
\* plain dependency keys and the member keys of its selector dependency keys.
MissingKeys(fs, i) ==
    LET needed == {k \in Range(DependsOn(fs[i])) : ~k.selector}
                    \cup UNION {Range(k.values) :
                                  k \in {d \in Range(DependsOn(fs[i])) : d.selector}}
    IN  {k \in needed : \A j \in DOMAIN fs : Provides(fs[j]).symbol # k.symbol}

\* (a), (b) and (c) for every factory of fs
ValidGraph(fs) ==
    \A i \in DOMAIN fs : NoSelfDependency(fs, i) /\ MissingKeys(fs, i) = {}

\* The factory at place i is the first of fs with a violation.
FirstViolation(fs, i) ==
    /\ ~(NoSelfDependency(fs, i) /\ MissingKeys(fs, i) = {})
    /\ \A j \in 1..(i - 1) : NoSelfDependency(fs, j) /\ MissingKeys(fs, j) = {}

\* The error message names `name`.
Mentions(error, name) == error.subject = name \/ name \in Range(error.list)

LastProvider(flat, sym) ==
    flat[CHOOSE i \in DOMAIN flat :
           /\ Provides(flat[i]).symbol = sym
           /\ \A j \in (i + 1)..Len(flat) : Provides(flat[j]).symbol # sym]

\* C7: the factories of the module from returns hold exactly one factory per
\* distinct provided key of the flattened input, and it is the last factory of
\* the flattened input that provides the key.
C7_OnePerKeyLastWins ==
    (fromCall.called /\ fromCall.result.ok) =>
        LET flat == flattened(fromCall.entries)
            fs == fromCall.result.factories
        IN  /\ {Provides(f).symbol : f \in Range(fs)}
                  = {Provides(f).symbol : f \in Range(flat)}
            /\ \A i, j \in DOMAIN fs :
                  Provides(fs[i]).symbol = Provides(fs[j]).symbol => i = j
            /\ \A i \in DOMAIN fs :
                  fs[i] = LastProvider(flat, Provides(fs[i]).symbol)

\* A module was returned for an input in which two different factories provide
\* one key, one of them inside a module entry.
C7_Witness ==
    /\ fromCall.called /\ fromCall.result.ok
    /\ \E e \in Range(fromCall.entries) : e.module
    /\ LET flat == flattened(fromCall.entries)
       IN  \E i, j \in DOMAIN flat :
              /\ i < j /\ flat[i] # flat[j]
              /\ Provides(flat[i]).symbol = Provides(flat[j]).symbol

\* C9 as stated: whenever a factory's dependsOn holds its own provided key,
\* from throws ServiceModuleInitError and the message names that factory's key.
C9_Original ==
    fromCall.called =>
        \A i \in DOMAIN Validated :
            ~NoSelfDependency(Validated, i) =>
                /\ ~fromCall.result.ok
                /\ fromCall.result.error.name = "ServiceModuleInitError"
                /\ Mentions(fromCall.result.error, Provides(Validated[i]).name)

\* C9 amended: whenever a factory's dependsOn holds its own provided key, from
\* throws ServiceModuleInitError and returns no module; the error is the
\* recursive-dependency error naming that factory's key when no factory before
\* it in the list has a violation.
C9_SelfDependencyRejected ==
    /\ fromCall.called =>
        \A i \in DOMAIN Validated :
            ~NoSelfDependency(Validated, i) =>
                /\ ~fromCall.result.ok
                /\ fromCall.result.error.name = "ServiceModuleInitError"
                /\ FirstViolation(Validated, i) =>
                     /\ fromCall.result.error.text = "Recursive dependency detected on: "
                     /\ fromCall.result.error.subject = Provides(Validated[i]).name
    /\ \A m \in DOMAIN modules : \A i \in DOMAIN modules[m] :
            NoSelfDependency(modules[m], i)

\* from threw the recursive-dependency error for a factory that is not the
\* first of the list and whose own key is not its first dependency.
C9_Witness ==
    /\ fromCall.called /\ ~fromCall.result.ok
    /\ fromCall.result.error.text = "Recursive dependency detected on: "
    /\ \E i \in DOMAIN Validated :
         /\ i > 1 /\ FirstViolation(Validated, i)
         /\ DependsOn(Validated[i])[1] # Provides(Validated[i])
         /\ fromCall.result.error.subject = Provides(Validated[i]).name

\* The names the error lists as missing.
Listed == Range(fromCall.result.error.list)

\* C10 as stated: when a factory has missing dependencies, the error from
\* raises lists exactly the missing keys of that factory.
C10_Original ==
    fromCall.called =>
        \A i \in DOMAIN Validated :
            MissingKeys(Validated, i) # {} =>
                /\ ~fromCall.result.ok
                /\ Listed = {k.name : k \in MissingKeys(Validated, i)}

\* C10 amended: when the first factory with a violation has missing
\* dependencies and no self-dependency, the error from raises is about that
\* factory and lists exactly its missing keys: every unregistered plain
\* dependency key and every unregistered member of a selector dependency key,
\* all in the one error, and no other key.
C10_MissingKeysListed ==
    fromCall.called =>
        \A i \in DOMAIN Validated :
            (FirstViolation(Validated, i) /\ NoSelfDependency(Validated, i)) =>
                /\ ~fromCall.result.ok
                /\ fromCall.result.error.name = "ServiceModuleInitError"
                /\ fromCall.result.error.text = " will fail because it depends on:"
                /\ fromCall.result.error.subject = Provides(Validated[i]).name
                /\ Listed = {k.name : k \in MissingKeys(Validated, i)}
                /\ Len(fromCall.result.error.list) >= Cardinality(MissingKeys(Validated, i))

\* from threw one error listing a missing plain key and a missing member of a
\* selector key, while another member of that selector key is registered.
C10_Witness ==
    /\ fromCall.called /\ ~fromCall.result.ok
    /\ \E i \in DOMAIN Validated :
         /\ FirstViolation(Validated, i) /\ NoSelfDependency(Validated, i)
         /\ KeyM \in MissingKeys(Validated, i)
         /\ KeyA2 \in MissingKeys(Validated, i)
         /\ KeyA \notin MissingKeys(Validated, i)
         /\ SelAM \in Range(DependsOn(Validated[i]))
    /\ Cardinality(Listed) >= 2

\* The factories of fs, other than the first with a violation, that have
\* missing dependencies.
LaterOffenders(fs) ==
    {j \in DOMAIN fs : MissingKeys(fs, j) # {} /\ ~FirstViolation(fs, j)}

\* The factories of fs with missing dependencies.
Offenders(fs) == {i \in DOMAIN fs : MissingKeys(fs, i) # {}}

\* C11 as stated: when two or more factories each have missing dependencies,
\* the one error from raises names every missing key of all of them.
C11_Original ==
    (fromCall.called /\ Cardinality(Offenders(Validated)) >= 2) =>
        /\ ~fromCall.result.ok
        /\ Listed = {k.name : k \in UNION {MissingKeys(Validated, i) :
                                              i \in Offenders(Validated)}}

\* C11 amended: when two or more factories each have missing dependencies,
\* from raises one error; when the first factory with a violation, in
\* registration order, does not depend on itself, the error is about that
\* factory alone: it names every missing key of that factory, and it names a
\* missing key of a later offending factory only if the first one misses a
\* key of the same name.
C11_FirstOffenderOnly ==
    (fromCall.called /\ Cardinality(Offenders(Validated)) >= 2) =>
        /\ ~fromCall.result.ok
        /\ \A i \in Offenders(Validated) :
             (FirstViolation(Validated, i) /\ NoSelfDependency(Validated, i)) =>
                /\ fromCall.result.error.subject = Provides(Validated[i]).name
                /\ \A k \in MissingKeys(Validated, i) : k.name \in Listed
                /\ \A j \in LaterOffenders(Validated) :
                     \A k \in MissingKeys(Validated, j) :
                        k.name \in Listed =>
                            \E k1 \in MissingKeys(Validated, i) : k1.name = k.name

\* from threw for two factories with missing dependencies and no
\* self-dependency; the second one misses a key the error does not name.
C11_Witness ==
    /\ fromCall.called /\ ~fromCall.result.ok
    /\ \E i, j \in Offenders(Validated) :
         /\ i < j
         /\ FirstViolation(Validated, i)
         /\ NoSelfDependency(Validated, i) /\ NoSelfDependency(Validated, j)
         /\ fromCall.result.error.subject = Provides(Validated[i]).name
         /\ \E k \in MissingKeys(Validated, j) : k.name \notin Listed

\* The factory at place i names the key of the factory at place j among its
\* plain dependency keys.
DependsDirectly(fs, i, j) ==
    \E d \in Range(DependsOn(fs[i])) :
        ~d.selector /\ d.symbol = Provides(fs[j]).symbol

RECURSIVE ReachableFrom(_, _, _)
\* The places reached from the places S in at most n dependency steps.
ReachableFrom(fs, S, n) ==
    IF n = 0 THEN S
    ELSE ReachableFrom(fs,
            S \cup {j \in DOMAIN fs : \E i \in S : DependsDirectly(fs, i, j)},
            n - 1)

\* The dependency graph of fs has a cycle, of any length.
Cyclic(fs) ==
    \E i \in DOMAIN fs :
        \E j \in DOMAIN fs :
            /\ DependsDirectly(fs, i, j)
            /\ i \in ReachableFrom(fs, {j}, Len(fs))

\* C12: for every set of factories whose dependency graph contains a cycle,
\* of any length, ServiceModule.from throws ServiceModuleInitError instead of
\* returning a module.
C12_CyclesRejected ==
    (fromCall.called /\ Cyclic(Validated)) =>
        /\ ~fromCall.result.ok
        /\ fromCall.result.error.name = "ServiceModuleInitError"

\* C13: ServiceModule.from is lazy and all-or-nothing: whether it returns a
\* module or throws, the call invokes no build function and no dispose
\* function, starts no resolution and changes no singleton slot; when
\* validation fails the caller obtains no module.
C13_FromIsLazy ==
    [][(fromCall'.called /\ fromCall' # fromCall) =>
          /\ builds' = builds
          /\ disposeCalls' = disposeCalls
          /\ tasks' = tasks
          /\ promisedInstance' = promisedInstance
          /\ resolvedInstance' = resolvedInstance
          /\ ~fromCall'.result.ok => modules' = modules
          /\ fromCall'.result.ok <=> constructor(fromCall'.result.factories) = NoError
      ]_vars

\* from has thrown while a singleton of the module in use holds a cached
\* value and another build is in flight.
C13_Witness ==
    /\ fromCall.called /\ ~fromCall.result.ok
    /\ modules # <<>>
    /\ \E f \in FactoryIds : resolvedInstance[f] # Undefined
    /\ \E f \in FactoryIds : promisedInstance[f] # None

RECURSIVE NeededKeys(_)
\* The keys a dependsOn list asks for, in declaration order: a plain key
\* itself, a selector key its members in their order.
NeededKeys(deps) ==
    IF deps = <<>> THEN <<>>
    ELSE (IF Head(deps).selector THEN Head(deps).values ELSE <<Head(deps)>>)
         \o NeededKeys(Tail(deps))

\* The names of the keys the factory at place i asks for and fs does not
\* provide, in declaration order.
MissingNames(fs, i) ==
    LET missing == SelectSeq(NeededKeys(DependsOn(fs[i])),
                             LAMBDA k : \A j \in DOMAIN fs :
                                           Provides(fs[j]).symbol # k.symbol)
    IN  [n \in DOMAIN missing |-> missing[n].name]

\* C29: validation reports the first violation in registry order: the error
\* from raises concerns the first factory of the deduplicated list that has a
\* violation; for that factory a self-dependency is reported in preference to
\* its missing dependencies, and the missing keys are listed in the order of
\* dependsOn, the members of a selector key in their own order.
C29_FirstViolationReported ==
    fromCall.called =>
        \A i \in DOMAIN Validated :
            FirstViolation(Validated, i) =>
                /\ ~fromCall.result.ok
                /\ fromCall.result.error.subject = Provides(Validated[i]).name
                /\ IF NoSelfDependency(Validated, i)
                   THEN /\ fromCall.result.error.text
                                = " will fail because it depends on:"
                        /\ fromCall.result.error.list = MissingNames(Validated, i)
                   ELSE /\ fromCall.result.error.text
                                = "Recursive dependency detected on: "
                        /\ fromCall.result.error.list = <<>>

\* from was given a valid factory and then one that depends on itself and
\* misses a key: the error is the recursive-dependency error of the second.
C29_Witness ==
    /\ fromCall.called /\ ~fromCall.result.ok
    /\ Len(Validated) = 2
    /\ NoSelfDependency(Validated, 1) /\ MissingKeys(Validated, 1) = {}
    /\ ~NoSelfDependency(Validated, 2) /\ MissingKeys(Validated, 2) # {}
    /\ fromCall.result.error.text = "Recursive dependency detected on: "
    /\ fromCall.result.error.subject = Provides(Validated[2]).name

\* ------------------------------------------------------------ resolution
\* The module under test in Spec.
Registry == modules[1]

SingletonsOf(fs) == {f \in Range(fs) : Factories[f].kind = "singleton"}
OneShotsOf(fs) == {f \in Range(fs) : Factories[f].kind = "oneShot"}

\* The get calls made for a key that factory f provides.
TasksOf(f) == {t \in DOMAIN tasks : tasks[t].fac = f}

\* The builds get call t invoked.
BuildsBy(t) == {b \in DOMAIN builds : builds[b].by = t}

FailedBuilds == {b \in DOMAIN builds : builds[b].st = "rejected"}

\* C1: get calls for a singleton, all made before its first build completed and
\* with no dispose, invoke the build function once and resolve to one value
\* (stated for builds that do not fail: the calls are to resolve).
C1_ConcurrentGetsShareOneBuild ==
    \A f \in SingletonsOf(Registry) :
        (/\ nDispose = 0
         /\ \A t \in TasksOf(f) : tasks[t].done = {}
         /\ BuildsOf(f) \cap FailedBuilds = {}) =>
            /\ Cardinality(BuildsOf(f)) <= 1
            /\ \A t, u \in TasksOf(f) :
                  (tasks[t].st = "fulfilled" /\ tasks[u].st = "fulfilled")
                      => tasks[t].val = tasks[u].val

\* C2: in a run of sequential get calls (each made after the calls before it
\* settled) with no dispose and no failing build, the build function of a
\* singleton is invoked once, by the first get call for it, and every get call
\* for it returns the value of that build.
C2_SequentialGetsBuildOnce ==
    (nDispose = 0 /\ FailedBuilds = {} /\ \A t \in DOMAIN tasks : tasks[t].alone) =>
        \A f \in SingletonsOf(Registry) :
            /\ Cardinality(BuildsOf(f)) <= 1
            /\ \A b \in BuildsOf(f) :
                  builds[b].by \in TasksOf(f)
                      /\ \A t \in TasksOf(f) : builds[b].by <= t
            /\ \A t \in TasksOf(f) :
                  Settled(tasks[t]) =>
                      /\ tasks[t].st = "fulfilled"
                      /\ \E b \in BuildsOf(f) : tasks[t].val = builds[b].val

\* C3: when the build function of a singleton fails, the in-flight slot is
\* cleared and nothing is cached, and a get call made after the failure does
\* not return the old failure.
C3_FailedBuildClearsSlot ==
    \A f \in SingletonsOf(Registry) :
        /\ \A b \in BuildsOf(f) \cap FailedBuilds :
              promisedInstance[f] # b /\ resolvedInstance[f] # builds[b].val
        /\ \A t \in TasksOf(f) :
              tasks[t].st = "rejected" =>
                  \A b \in tasks[t].done : tasks[t].val # Err(b)

\* The factories reachable from f through dependsOn in fs (f included).
RECURSIVE ChainFrom(_, _, _)
ChainFrom(fs, seen, n) ==
    IF n = 0 THEN seen
    ELSE ChainFrom(fs,
            seen \cup {g \in Range(fs) :
                         \E f \in seen : \E d \in Range(DependsOn(f)) :
                            ~d.selector /\ Provides(g).symbol = d.symbol},
            n - 1)
Chain(fs, f) == ChainFrom(fs, {f}, Len(fs))

RECURSIVE RootOf(_)
\* The top-level get call that get call t was made for.
RootOf(t) == IF tasks[t].parent = 0 THEN t ELSE RootOf(tasks[t].parent)

\* C4 as stated: every failure raised by a build function that a top-level get
\* call triggered reaches the caller of that get call as that failure value.
C4_Original ==
    \A b \in FailedBuilds :
        Settled(tasks[RootOf(builds[b].by)]) =>
            /\ tasks[RootOf(builds[b].by)].st = "rejected"
            /\ tasks[RootOf(builds[b].by)].val = Err(b)

\* C4 amended: a get call in whose dependency chain a build function failed
\* never resolves; it rejects with exactly one of the failure values raised in
\* its chain, unchanged: the first rejection its Promise.all saw, or the
\* failure of the build it followed (failures of other dependencies of the
\* same call are dropped); and a get call invokes a build function at most
\* once.
C4_BuildFailurePropagatesUnchanged ==
    /\ \A b \in FailedBuilds :
          Settled(tasks[RootOf(builds[b].by)]) =>
              /\ tasks[RootOf(builds[b].by)].st = "rejected"
              /\ \E c \in FailedBuilds : tasks[RootOf(builds[b].by)].val = Err(c)
    /\ \A t \in DOMAIN tasks :
        /\ tasks[t].st = "rejected" =>
              /\ \E b \in FailedBuilds :
                    /\ tasks[t].val = Err(b) /\ builds[b].val = Err(b)
                    /\ builds[b].fac \in Chain(Registry, tasks[t].fac)
              /\ tasks[t].rej # Undefined => tasks[t].val = tasks[t].rej
        /\ tasks[t].st = "fulfilled" =>
              /\ tasks[t].val.type # "error"
              /\ tasks[t].rej = Undefined
              /\ \A i \in DOMAIN tasks[t].deps :
                    tasks[t].deps[i].task # 0 =>
                        tasks[tasks[t].deps[i].task].st = "fulfilled"
        /\ \A i \in DOMAIN tasks[t].deps :
              (tasks[t].deps[i].task # 0
                  /\ tasks[tasks[t].deps[i].task].st = "rejected")
                  => /\ tasks[t].rej # Undefined
                     /\ BuildsBy(t) = {}
        /\ Cardinality(BuildsBy(t)) <= 1

\* A top-level get call has rejected with the failure of the build of one of
\* its dependencies, made for it, while the build of another of its
\* dependencies failed as well.
C4_Witness ==
    \E t \in TopLevel :
        /\ tasks[t].st = "rejected"
        /\ \E b, c \in FailedBuilds :
              /\ tasks[t].val = Err(b)
              /\ builds[b].fac # tasks[t].fac
              /\ RootOf(builds[b].by) = t
              /\ c # b /\ RootOf(builds[c].by) = t

\* C5: every get call for a one-shot factory that reaches initialize invokes
\* the build function once, for itself: no two calls share a build, n completed
\* calls made n builds, the values returned come each from the call's own
\* build, and the factory caches nothing.
C5_OneShotBuildsPerGet ==
    \A f \in OneShotsOf(Registry) :
        /\ promisedInstance[f] = None /\ resolvedInstance[f] = Undefined
        /\ \A b \in BuildsOf(f) : builds[b].by \in TasksOf(f)
        /\ \A t \in TasksOf(f) :
              /\ Cardinality(BuildsBy(t)) <= 1
              /\ (tasks[t].st # "awaitDeps" /\ tasks[t].rej = Undefined)
                    => Cardinality(BuildsBy(t)) = 1
              /\ tasks[t].st = "fulfilled" =>
                    \E b \in BuildsBy(t) :
                        builds[b].st = "fulfilled" /\ tasks[t].val = builds[b].val
        /\ (\A t \in TasksOf(f) : Settled(tasks[t]) /\ tasks[t].rej = Undefined)
              => Cardinality(BuildsOf(f)) = Cardinality(TasksOf(f))

\* Two get calls for a one-shot factory have returned the values of two builds.
C5_Witness ==
    \E f \in OneShotsOf(Registry) : \E t, u \in TasksOf(f) :
        /\ t # u
        /\ tasks[t].st = "fulfilled" /\ tasks[u].st = "fulfilled"
        /\ tasks[t].val # tasks[u].val
        /\ Cardinality(BuildsOf(f)) = 2

\* The values the builds of factory f have resolved to.
ValuesOf(f) == {builds[b].val : b \in {c \in BuildsOf(f) : builds[c].st = "fulfilled"}}

\* C8: in the module from([moduleX, factoryY]) where moduleX's factory 1 and
\* factoryY = 4 both provide KeyA, get calls for KeyA use factory 4, the build
\* function of factory 1 is never invoked, and the factory that depends on
\* KeyA is built with a value of a build of factory 4.
C8_MergeLastWins ==
    /\ findFactory(KeyA, ModuleX.factories) = 1
    /\ fromCall.entries = <<ModuleEntry(ModuleX.factories), FactoryEntry(4)>>
    /\ Registry = fromCall.result.factories
    /\ BuildsOf(1) = {}
    /\ \A t \in DOMAIN tasks :
          tasks[t].key = KeyA =>
              /\ tasks[t].fac = 4
              /\ BuildsBy(t) \subseteq BuildsOf(4)
              /\ tasks[t].st = "awaitInit" => tasks[t].on \in BuildsOf(4)
              /\ tasks[t].st = "fulfilled" => tasks[t].val \in ValuesOf(4)
    /\ \A b \in DOMAIN builds : \A i \in DOMAIN builds[b].args :
          DependsOn(builds[b].fac)[i] = KeyA => builds[b].args[i] \in ValuesOf(4)

\* A get call for KeyA has returned an object built by factory 4, and the
\* factory that depends on KeyA has been built with an object built by
\* factory 4.
C8_Witness ==
    /\ \E t \in TopLevel : \E b \in BuildsOf(4) :
          /\ tasks[t].key = KeyA /\ tasks[t].st = "fulfilled"
          /\ tasks[t].val = Obj(b)
    /\ \E b \in DOMAIN builds : \E c \in BuildsOf(4) :
          /\ builds[b].st = "fulfilled"
          /\ KeyA \in Range(DependsOn(builds[b].fac))
          /\ builds[b].args[1] = Obj(c)

\* ------------------------------------------------- not found, selectors
\* The module has a factory for the key, by identity.
Registered(key) ==
    \E i \in DOMAIN Registry : Provides(Registry[i]).symbol = key.symbol

\* C14: module.get(key) for a key no factory of the module provides, by
\* identity, rejects with ServiceFactoryNotFoundError naming the key; the call
\* starts no nested get, invokes no build function and no dispose function and
\* leaves the slots of every singleton unchanged.
C14_UnregisteredKeyRejected ==
    [][\A t \in DOMAIN tasks' :
          (/\ t \notin DOMAIN tasks
           /\ tasks'[t].parent = 0
           /\ tasks'[t].via.selector = Undefined
           /\ ~Registered(tasks'[t].via.key)) =>
              /\ tasks'[t].st = "rejected"
              /\ tasks'[t].val.type = "ServiceFactoryNotFoundError"
              /\ tasks'[t].val.name = tasks'[t].via.key.name
              /\ Len(tasks') = Len(tasks) + 1
              /\ builds' = builds
              /\ disposeCalls' = disposeCalls
              /\ promisedInstance' = promisedInstance
              /\ resolvedInstance' = resolvedInstance
      ]_vars

\* module.get(KeyA2) was rejected with the not-found error, although a
\* factory for a key of the same name is registered and has a cached value,
\* and the call has no build.
C14_Witness ==
    \E t \in ModuleCalls :
        /\ tasks[t].via.key = KeyA2
        /\ tasks[t].st = "rejected"
        /\ tasks[t].val = ServiceFactoryNotFoundError(KeyA2)
        /\ {b \in DOMAIN builds : builds[b].by = t} = {}
        /\ findFactory(KeyA, Registry) # None
        /\ resolvedInstance[findFactory(KeyA, Registry)] # Undefined

\* C15: the build function of a factory with dependsOn = [d1..dn] receives n
\* arguments, and the i-th is the value resolved for di: for a plain key the
\* value the nested get(di) of the same call resolved to, a value built by the
\* factory registered for di; for a selector key a ServiceSelector of this
\* module and that key.  This holds in every reachable state, so for every
\* order in which the nested calls complete.
C15_ArgumentsFollowDependsOn ==
    \A b \in DOMAIN builds :
        LET t == builds[b].by
            d == DependsOn(builds[b].fac)
        IN  /\ Len(builds[b].args) = Len(d)
            /\ \A i \in DOMAIN d :
                 IF d[i].selector
                 THEN builds[b].args[i] = ServiceSelector(tasks[t].module, d[i])
                 ELSE LET c == tasks[t].deps[i].task
                      IN  /\ c \in DOMAIN tasks
                          /\ tasks[c].parent = t
                          /\ tasks[c].key = d[i]
                          /\ tasks[c].st = "fulfilled"
                          /\ builds[b].args[i] = tasks[c].val
                          /\ builds[b].args[i] \in
                                ValuesOf(findFactory(d[i], modules[tasks[t].module]))

\* The build function of D (dependsOn B, selector[A, B], C) was called with
\* the object of a build of B, a selector and the object of a build of C,
\* where the build of C is older than the build of B: the arguments follow the
\* declaration, not the order of the builds.
C15_Witness ==
    \E b \in DOMAIN builds :
        /\ Provides(builds[b].fac) = KeyD
        /\ builds[b].args[2] = ServiceSelector(1, SelAB)
        /\ \E b1, b3 \in DOMAIN builds :
             /\ b3 < b1
             /\ Provides(builds[b1].fac) = KeyB /\ builds[b].args[1] = Obj(b1)
             /\ Provides(builds[b3].fac) = KeyC /\ builds[b].args[3] = Obj(b3)

\* The nested get calls started by get call t.
NestedGets(t) == {c \in DOMAIN tasks : tasks[c].parent = t}

\* C16: within one get call, the build function of the factory is invoked only
\* after every dependency resolution the call started has completed
\* successfully: while a nested get call is pending or has failed the call
\* has invoked no build function, and a selector dependency is constructed
\* before the call waits.
C16_BuildAfterDependencies ==
    /\ \A b \in DOMAIN builds :
         \A c \in NestedGets(builds[b].by) : tasks[c].st = "fulfilled"
    /\ \A t \in DOMAIN tasks :
         /\ (\E c \in NestedGets(t) : tasks[c].st # "fulfilled") =>
                /\ {b \in DOMAIN builds : builds[b].by = t} = {}
                /\ tasks[t].st \in {"awaitDeps", "rejected"}
         /\ \A i \in DOMAIN tasks[t].deps :
                tasks[t].deps[i].task = 0 =>
                    tasks[t].deps[i].value.type = "selector"
         /\ tasks[t].fac # None =>
                Len(tasks[t].deps) = Len(DependsOn(tasks[t].fac))

\* One get(D) has invoked D's build function after its two nested get calls
\* were fulfilled, while another get(D) is waiting: one of its nested calls is
\* fulfilled, the other pending, and it has invoked nothing.
C16_Witness ==
    \E t, u \in DOMAIN tasks :
        /\ tasks[t].key = KeyD /\ tasks[u].key = KeyD
        /\ \E b \in DOMAIN builds : builds[b].by = t
        /\ Cardinality(NestedGets(t)) = 2
        /\ tasks[u].st = "awaitDeps"
        /\ \E c, d \in NestedGets(u) :
             tasks[c].st = "fulfilled" /\ tasks[d].st = "awaitInit"

\* The places of the plain keys in the dependsOn list of factory f.
PlainPlaces(f) == {i \in DOMAIN DependsOn(f) : ~DependsOn(f)[i].selector}

\* C17: resolving a factory whose dependsOn contains a selector key does not
\* resolve the members of the selector key: the get call starts one nested
\* get per plain key and none for the selector key or its members, and passes
\* a ServiceSelector bound to this module and that selector key; the build
\* function of a member is invoked only by a call made through a selector (or
\* by a get for a plain dependency on that member).
C17_SelectorMembersNotResolved ==
    /\ \A t \in DOMAIN tasks :
         tasks[t].fac # None =>
            LET d == DependsOn(tasks[t].fac)
            IN  /\ \A i \in DOMAIN d :
                     d[i].selector =>
                        tasks[t].deps[i] =
                            [task |-> 0,
                             value |-> ServiceSelector(tasks[t].module, d[i])]
                /\ NestedGets(t) =
                     {tasks[t].deps[i].task : i \in PlainPlaces(tasks[t].fac)}
                /\ \A i \in PlainPlaces(tasks[t].fac) :
                     tasks[tasks[t].deps[i].task].key = d[i]
    /\ \A b \in DOMAIN builds :
         Provides(builds[b].fac) = KeyA =>
            /\ builds[b].by \in SelectorCalls
            /\ tasks[builds[b].by].via.key = KeyA
    /\ \A b \in DOMAIN builds :
         Provides(builds[b].fac) = KeyB =>
            \/ builds[b].by \in SelectorCalls
            \/ /\ tasks[builds[b].by].parent # 0
               /\ KeyB \in Range(DependsOn(tasks[tasks[builds[b].by].parent].fac))

\* The consumers C and D of the selector key [A, B] are built, each with the
\* selector as argument, every get call has settled, and the build function of
\* the member A has never been invoked.
C17_Witness ==
    /\ \A t \in DOMAIN tasks : Settled(tasks[t])
    /\ \E b \in DOMAIN builds :
         /\ Provides(builds[b].fac) = KeyC /\ builds[b].st = "fulfilled"
         /\ builds[b].args = <<ServiceSelector(1, SelAB)>>
    /\ \E b \in DOMAIN builds :
         /\ Provides(builds[b].fac) = KeyD /\ builds[b].st = "fulfilled"
         /\ builds[b].args[2] = ServiceSelector(1, SelAB)
    /\ \A b \in DOMAIN builds : Provides(builds[b].fac) # KeyA

\* The key is a member of the selector key the selector was made for.
IsMember(selector, key) ==
    \E i \in DOMAIN SelectorKeyOf(selector).values :
        SelectorKeyOf(selector).values[i].symbol = key.symbol

\* C18: in a module with a factory for every member of a selector key, the
\* code that received the ServiceSelector obtains from selector.get(K), for a
\* member K, what module.get(K) returns: the call resolves K on the selector's
\* module with K's registered factory, its value is a value built by that
\* factory, and for a singleton it is the cached value module.get(K) returns.
C18_SelectorGetsMember ==
    \A t \in SelectorCalls :
        IsMember(tasks[t].via.selector, tasks[t].via.key) =>
            LET K == tasks[t].via.key
                f == findFactory(K, modules[tasks[t].via.selector.ref])
            IN  /\ f # None /\ Provides(f) = K
                /\ tasks[t].key = K
                /\ tasks[t].module = tasks[t].via.selector.ref
                /\ tasks[t].fac = f
                /\ tasks[t].st = "fulfilled" =>
                     /\ tasks[t].val \in ValuesOf(f)
                     /\ (Factories[f].kind = "singleton" /\ tasks[t].val # Undefined)
                            => tasks[t].val = resolvedInstance[f]

\* The code of a service asked its selector for the member B and received the
\* object B's factory built for that call.
C18_Witness ==
    \E t \in SelectorCalls :
        /\ tasks[t].via.selector = ServiceSelector(1, SelAB)
        /\ tasks[t].via.key = KeyB
        /\ tasks[t].st = "fulfilled"
        /\ \E b \in DOMAIN builds :
             /\ Provides(builds[b].fac) = KeyB
             /\ builds[b].by = t
             /\ tasks[t].val = Obj(b)

Tagged(scope) ==
    {f \in Range(Registry) : scope = "none" \/ Factories[f].scope = scope}

\* The user dispose functions called by the step, in order.
NewDisposeCalls == SubSeq(disposeCalls', Len(disposeCalls) + 1, Len(disposeCalls'))

\* C20: module.dispose(scope) disposes exactly the factories tagged with that
\* scope: each singleton among them has its dispose function called once with
\* its cached value, if it has one, and both its slots cleared; the cached
\* value and the in-flight slot of every other factory stay as they were and
\* none of their dispose functions is called.  module.dispose() without a
\* scope does this for every factory of the module.
C20_DisposeByScope ==
    [][\A scope \in Scopes :
          Dispose(1, scope) =>
              /\ \A f \in FactoryIds \ Tagged(scope) :
                   /\ promisedInstance'[f] = promisedInstance[f]
                   /\ resolvedInstance'[f] = resolvedInstance[f]
                   /\ \A i \in DOMAIN NewDisposeCalls : NewDisposeCalls[i][1] # f
              /\ \A f \in Tagged(scope) :
                   Factories[f].kind = "singleton" =>
                      /\ promisedInstance'[f] = None
                      /\ resolvedInstance'[f] = Undefined
                      /\ Cardinality({i \in DOMAIN NewDisposeCalls :
                                         NewDisposeCalls[i][1] = f})
                           = IF resolvedInstance[f] # Undefined THEN 1 ELSE 0
                      /\ \A i \in DOMAIN NewDisposeCalls :
                           NewDisposeCalls[i][1] = f =>
                              NewDisposeCalls[i][2] = resolvedInstance[f]
              /\ scope = "none" => Tagged(scope) = Range(Registry)
              /\ SubSeq(disposeCalls', 1, Len(disposeCalls)) = disposeCalls
      ]_vars

\* The user has disposed the scope s1 while A (tagged s1) and C (no scope) both
\* held a cached value: A's dispose function was called with A's value and A's
\* cache is empty, C's cache is as it was.
C20_Witness ==
    /\ nDispose = 1
    /\ Len(disposeCalls) = 1
    /\ disposeCalls[1][1] = 4
    /\ resolvedInstance[4] = Undefined
    /\ resolvedInstance[3] # Undefined
    /\ Factories[4].scope = "s1" /\ Factories[3].scope = "none"

\* ------------------------------------------------------ dispose, rebuild
\* The first get call for the key of factory f made after a dispose.
FirstGetAfterDispose(ts, f, t) ==
    /\ ts[t].fac = f /\ ts[t].epoch >= 1
    /\ \A u \in 1..(t - 1) : ~(ts[u].fac = f /\ ts[u].epoch >= 1)

\* C21: disposing a singleton factory calls the user's dispose function with
\* the cached value if and only if a value is cached, then leaves both slots
\* empty; the next get of its key after the dispose invokes the build function
\* again: the value it resolves to comes from a build started after the
\* dispose, and that value is cached.
C21_DisposeThenRebuild ==
    [][/\ Dispose(1, "none") =>
            \A f \in SingletonsOf(Registry) :
                /\ (\E i \in DOMAIN NewDisposeCalls :
                        NewDisposeCalls[i] = <<f, resolvedInstance[f]>>)
                     <=> resolvedInstance[f] # Undefined
                /\ promisedInstance'[f] = None
                /\ resolvedInstance'[f] = Undefined
       /\ \A f \in SingletonsOf(Registry) :
            \A t \in DOMAIN tasks' :
                (FirstGetAfterDispose(tasks', f, t) /\ tasks'[t].st = "fulfilled") =>
                    /\ \E b \in DOMAIN builds' :
                         /\ builds'[b].fac = f
                         /\ builds'[b].epoch >= 1
                         /\ builds'[b].st = "fulfilled"
                         /\ builds'[b].val = tasks'[t].val
                    /\ resolvedInstance'[f] = tasks'[t].val
      ]_vars

\* What a module.dispose() call made in the state the step leads to does to
\* the slots and to the record of user dispose calls.
DisposedAgain ==
    DisposeAll(Selected(modules'[1], "none"),
               [promised |-> promisedInstance',
                resolved |-> resolvedInstance',
                calls |-> disposeCalls',
                thrower |-> None, threw |-> FALSE])

\* C22: module.dispose() is idempotent: a second dispose() made directly after
\* a first one, in the state the first one left, invokes no user dispose
\* function, invokes no build function and leaves every slot as the first call
\* left it.
C22_DisposeIdempotent ==
    [][Dispose(1, "none") =>
          /\ DisposedAgain.calls = disposeCalls'
          /\ DisposedAgain.promised = promisedInstance'
          /\ DisposedAgain.resolved = resolvedInstance'
          /\ \A f \in SingletonsOf(modules'[1]) :
                promisedInstance'[f] = None /\ resolvedInstance'[f] = Undefined
          /\ builds' = builds
      ]_vars

\* The module has been disposed while its two singletons held cached values:
\* both user dispose functions have been called, and nothing is left for a
\* second dispose to do.
C22_Witness ==
    /\ nDispose = 1
    /\ Len(disposeCalls) = 2
    /\ {disposeCalls[i][1] : i \in DOMAIN disposeCalls} = SingletonsOf(Registry)
    /\ \A f \in SingletonsOf(Registry) :
         promisedInstance[f] = None /\ resolvedInstance[f] = Undefined

\* C23: the dispose sweep of the module invokes the dispose function a
\* one-shot factory was created with, once and with no instance; for a one-shot
\* factory created without one the sweep calls nothing.
C23_OneShotDisposeInvoked ==
    [][Dispose(1, "none") =>
          \A f \in OneShotsOf(Registry) :
              /\ Cardinality({i \in DOMAIN NewDisposeCalls : NewDisposeCalls[i][1] = f})
                    = IF Factories[f].given.dispose THEN 1 ELSE 0
              /\ \A i \in DOMAIN NewDisposeCalls :
                    NewDisposeCalls[i][1] = f => NewDisposeCalls[i][2] = Undefined
      ]_vars

\* ------------------------------------------------------------ key identity
\* The identities of the keys the factories of fs provide.
SymbolsOf(fs) == {Provides(fs[i]).symbol : i \in DOMAIN fs}

\* C24: key identity is independent of the display name.  For two distinct
\* keys of the same name, a factory registered for one never stands for the
\* other: from keeps one factory per identity (both factories of two keys of
\* one name), from fails when a dependency key has no provider of its own
\* identity whatever the names registered, and get resolves a key with a
\* factory of that very identity or rejects with the not-found error.
C24_IdentityNotName ==
    /\ fromCall.called =>
          /\ SymbolsOf(Validated) = SymbolsOf(flattened(fromCall.entries))
          /\ Len(Validated) = Cardinality(SymbolsOf(Validated))
          /\ fromCall.result.ok =>
                \A i \in DOMAIN Validated :
                    \A k \in Range(DependsOn(Validated[i])) :
                        ~k.selector => k.symbol \in SymbolsOf(Validated)
    /\ \A t \in DOMAIN tasks :
          IF tasks[t].key.symbol \in SymbolsOf(modules[tasks[t].module])
          THEN /\ tasks[t].fac # None
               /\ Provides(tasks[t].fac).symbol = tasks[t].key.symbol
               /\ tasks[t].st = "fulfilled" => tasks[t].val \in ValuesOf(tasks[t].fac)
          ELSE /\ tasks[t].fac = None
               /\ tasks[t].st = "rejected"
               /\ tasks[t].val = ServiceFactoryNotFoundError(tasks[t].key)

\* The module holds the factories of both keys named "A"; get of each key
\* was served by its own factory, with different objects.
C24_Witness ==
    /\ modules # <<>>
    /\ Range(modules[1]) = {1, 13}
    /\ KeyA.name = KeyA2.name /\ KeyA.symbol # KeyA2.symbol
    /\ \E t, u \in DOMAIN tasks :
         /\ tasks[t].key = KeyA /\ tasks[t].fac = 1 /\ tasks[t].st = "fulfilled"
         /\ tasks[u].key = KeyA2 /\ tasks[u].fac = 13 /\ tasks[u].st = "fulfilled"
         /\ tasks[t].val.type = "object" /\ tasks[u].val.type = "object"
         /\ tasks[t].val # tasks[u].val

\* --------------------------------------------------------- immutability
\* C25: the factory list of a module never changes after construction: no
\* get, build completion or dispose adds, removes, replaces or reorders its
\* factories, and ServiceModule.from([old, overrides]) returns a new list and
\* leaves old.factories as it was.
C25_FactoriesNeverChange ==
    [][modules # <<>> =>
          /\ DOMAIN modules' = DOMAIN modules
          /\ \A m \in DOMAIN modules :
                /\ Len(modules'[m]) = Len(modules[m])
                /\ \A i \in DOMAIN modules[m] : modules'[m][i] = modules[m][i]
      ]_vars

\* The module <<4, 2, 3>> has been used and disposed, and from([module, f1])
\* has returned the list <<1, 2, 3>>: the module still holds <<4, 2, 3>>.
C25_Witness ==
    /\ modules = <<<<4, 2, 3>>>>
    /\ fromCall.called /\ fromCall.result.ok
    /\ fromCall.entries = <<ModuleEntry(<<4, 2, 3>>), FactoryEntry(1)>>
    /\ fromCall.result.factories = <<1, 2, 3>>
    /\ builds # <<>>
    /\ nDispose = 1

\* ---------------------------------------------------- dispose and builds
\* The invocations of the build function of factory f that are in flight.
InFlight(f) == {b \in BuildsOf(f) : builds[b].st = "pending"}

\* C26: under every interleaving of get and dispose calls, dispose during a
\* build included, at most one invocation of the build function of a singleton
\* factory is in flight at any time.
C26_OneBuildInFlight ==
    \A f \in SingletonsOf(Registry) : Cardinality(InFlight(f)) <= 1

\* The singleton of get call t held a cached value when the call was made:
\* a build of it had completed with a value, and the module was not disposed.
CachedAtCall(t) ==
    /\ nDispose = 0
    /\ Factories[tasks[t].fac].kind = "singleton"
    /\ \E b \in tasks[t].done :
          builds[b].st = "fulfilled" /\ builds[b].val # Undefined

\* C27: once the value of a singleton is cached, a later module.get for it
\* invokes no build function at all: neither the singleton's own nor that of
\* any factory in its dependsOn chain.
C27_CachedGetBuildsNothing ==
    \A t \in TopLevel :
        (tasks[t].fac # None /\ CachedAtCall(t)) =>
            \A b \in DOMAIN builds : RootOf(builds[b].by) # t

\* ------------------------------------------------------- cycles at get
\* The get calls for a key whose factory lies on a dependency cycle of the
\* module.
OnCycle(t) ==
    /\ tasks[t].fac # None
    /\ \E i \in DOMAIN Registry :
         /\ Registry[i] = tasks[t].fac
         /\ i \in ReachableFrom(Registry,
                    {j \in DOMAIN Registry : DependsDirectly(Registry, i, j)},
                    Len(Registry))

FailedDependencies(ts, t) ==
    {u \in DOMAIN ts : /\ \E i \in DOMAIN ts[t].deps : ts[t].deps[i].task = u
                       /\ ts[u].st = "rejected"}

\* The get calls one of whose dependencies failed to resolve.
DependencyFailed(ts) == {t \in DOMAIN ts : FailedDependencies(ts, t) # {}}

\* A get call made after a get call for the same factory rejected on a
\* failed dependency, when every get call made before had settled, does not
\* reject when no build function invoked since it was made fails.
LaterGetSucceeds ==
    \A t, u \in TopLevel :
        ( /\ t < u /\ tasks[t].fac = tasks[u].fac
          /\ tasks[t].st = "rejected" /\ t \in DependencyFailed(tasks)
          /\ tasks[u].alone
          /\ \A b \in DOMAIN builds : builds[b].by >= u => builds[b].st # "rejected" )
        => tasks[u].st # "rejected"

\* A get call whose dependency failed does not invoke the factory's build
\* function, rejects with the failure of a dependency and leaves the slots of
\* the dependent as they were: empty when every get call for the dependent had
\* a dependency fail.
DependencyFailureSkipsBuild ==
    /\ \A t \in DependencyFailed(tasks') :
        /\ \A b \in DOMAIN builds' : builds'[b].by # t
        /\ tasks'[t].st \in {"awaitDeps", "rejected"}
        /\ tasks'[t].st = "rejected" =>
               \E u \in FailedDependencies(tasks', t) :
                   tasks'[t].val = tasks'[u].val
        /\ (t \in DOMAIN tasks /\ tasks[t].st # tasks'[t].st) =>
               /\ builds' = builds
               /\ promisedInstance' = promisedInstance
               /\ resolvedInstance' = resolvedInstance
    /\ \A f \in DOMAIN Factories :
        ( /\ Factories[f].kind = "singleton"
          /\ \A t \in DOMAIN tasks' :
                 tasks'[t].fac = f => t \in DependencyFailed(tasks') )
        => /\ promisedInstance'[f] = None
           /\ resolvedInstance'[f] = Undefined

\* C30: when the resolution of a dependency of a factory fails within a get
\* call, that call does not invoke the factory's build function and rejects
\* with the dependency's failure, a singleton dependent keeps an empty cache
\* and an empty in-flight slot, and a later get succeeds when the build
\* functions it invokes succeed.
C30_DependencyFailureRecoverable ==
    [][DependencyFailureSkipsBuild /\ LaterGetSucceeds']_vars

\* C31: after module.dispose() returns, every later get of a singleton
\* resolves to a value produced by a build started after that dispose, also
\* when a build of the singleton was in flight at the dispose: the result of
\* the earlier build is not installed in the cache and not served to later
\* callers.
C31_NoStaleBuildAfterDispose ==
    \A f \in SingletonsOf(Registry) :
        /\ resolvedInstance[f] # Undefined =>
               \E b \in BuildsOf(f) : /\ builds[b].val = resolvedInstance[f]
                                      /\ builds[b].epoch = nDispose
        /\ \A t \in DOMAIN tasks :
               ( /\ tasks[t].fac = f /\ tasks[t].st = "fulfilled"
                 /\ tasks[t].val # Undefined )
               => \E b \in BuildsOf(f) : /\ builds[b].val = tasks[t].val
                                         /\ builds[b].epoch >= tasks[t].epoch

RECURSIVE Root(_, _)
\* The get call made by the user in whose resolution get call t was made.
Root(ts, t) == IF ts[t].parent = 0 THEN t ELSE Root(ts, ts[t].parent)

\* The invocations of the build function of the factory of key made within
\* the resolution of the user's get call r.
BuildsWithin(r, key) ==
    {b \in DOMAIN builds : /\ Root(tasks, builds[b].by) = r
                           /\ Provides(builds[b].fac) = key}

\* C32: in a diamond (A depends on B and C, both depend on the singleton D) a
\* single get(A) on a fresh module invokes D's build function exactly once:
\* once the two nested gets of D have run, one invocation exists and no second
\* one is ever made, and the build functions of B and C receive the identical
\* value, that of this invocation.
C32_DiamondBuildsLeafOnce ==
    (tasks # <<>> /\ tasks[1].key = KeyA) =>
        /\ Cardinality(BuildsWithin(1, KeyD)) <= 1
        /\ Microtasks = {} => Cardinality(BuildsWithin(1, KeyD)) = 1
        /\ \A b \in BuildsWithin(1, KeyB) \cup BuildsWithin(1, KeyC) :
               \E d \in BuildsWithin(1, KeyD) :
                   builds[d].st = "fulfilled" /\ builds[b].args = <<builds[d].val>>

\* get(A) was the first call on the module; within it D's build function was
\* invoked once, and the build functions of B and C were both invoked with
\* the object it produced.
C32_Witness ==
    /\ tasks # <<>> /\ tasks[1].key = KeyA
    /\ Cardinality(BuildsWithin(1, KeyD)) = 1
    /\ BuildsWithin(1, KeyB) # {} /\ BuildsWithin(1, KeyC) # {}
    /\ \A b \in BuildsWithin(1, KeyB) \cup BuildsWithin(1, KeyC) :
           builds[b].args[1].type = "object"

\* C33: in a module that passed validation, get(key) for a key that has a
\* registered factory never fails with the not-found error, at any depth of
\* the resolution of plain dependencies: not-found arises only in a get call
\* made on the module (or through a selector), for the key requested there.
C33_NotFoundOnlyAtTop ==
    \A t \in DOMAIN tasks :
        /\ (\E f \in Range(modules[tasks[t].module]) :
                Provides(f).symbol = tasks[t].key.symbol) =>
               tasks[t].val.type # "ServiceFactoryNotFoundError"
        /\ tasks[t].val.type = "ServiceFactoryNotFoundError" =>
               /\ tasks[t].parent = 0
               /\ tasks[t].val = ServiceFactoryNotFoundError(tasks[t].key)

\* A get of an unregistered key rejected with not-found, and a get of a
\* registered key resolved after its nested get resolved.
C33_Witness ==
    /\ \E t \in TopLevel : /\ tasks[t].st = "rejected"
                           /\ tasks[t].val.type = "ServiceFactoryNotFoundError"
    /\ \E t \in TopLevel : \E u \in DOMAIN tasks :
           /\ tasks[u].parent = t
           /\ tasks[u].st = "fulfilled" /\ tasks[t].st = "fulfilled"

\* C34: in a validated module with an acyclic dependency graph whose build
\* functions all complete, every get call eventually completes, resolving or
\* rejecting.
C34_GetCompletes ==
    \A t \in 1..MaxTasks :
        (t \in DOMAIN tasks) ~> (t \in DOMAIN tasks /\ Settled(tasks[t]))

\* A get of C whose nested gets waited for pending builds has resolved, and
\* another get of C has rejected.
C34_Witness ==
    \E t, u \in TopLevel :
        /\ tasks[t].key = KeyC /\ tasks[u].key = KeyC
        /\ tasks[t].st = "fulfilled" /\ tasks[u].st = "rejected"
        /\ \A b \in DOMAIN builds : builds[b].st # "pending"

\* The get calls waiting for the promise of build b.
Waiting(b) == {t \in DOMAIN tasks : tasks[t].st = "awaitInit" /\ tasks[t].on = b}

\* C35: when several get calls for a singleton wait on the same in-flight
\* build and that build fails, the build function was invoked once for them,
\* every waiting call rejects with that failure, none resolves, and afterwards
\* the cached-value slot and the in-flight slot are both empty.
C35_SharedFailure ==
    [][ \A b \in DOMAIN builds :
          ( /\ builds[b].st = "pending" /\ builds'[b].st = "rejected"
            /\ Factories[builds[b].fac].kind = "singleton"
            /\ Cardinality(Waiting(b)) >= 2 )
          => /\ \A c \in BuildsOf(builds[b].fac) :
                    builds[c].by \in Waiting(b) => c = b
             /\ \A t \in Waiting(b) : /\ tasks'[t].st = "rejected"
                                      /\ tasks'[t].val = builds'[b].val
             /\ promisedInstance'[builds[b].fac] = None
             /\ resolvedInstance'[builds[b].fac] = Undefined
      ]_vars

\* C36: module.dispose(scope) invokes the dispose operation of every selected
\* factory that has one, exactly once per call, also when the user's dispose
\* function of a factory earlier in the list throws: the user's dispose
\* function of every selected singleton with a cached value is called once,
\* and no selected factory, one whose dispose function threw included, keeps
\* its value cached or its in-flight slot occupied.
C36_SweepSurvivesThrow ==
    [][\A scope \in Scopes :
          Dispose(1, scope) =>
              \A f \in Tagged(scope) :
                  Factories[f].hasDispose =>
                      /\ Cardinality({i \in DOMAIN NewDisposeCalls :
                                         NewDisposeCalls[i] = <<f, resolvedInstance[f]>>})
                           = IF resolvedInstance[f] # Undefined THEN 1 ELSE 0
                      /\ resolvedInstance'[f] = Undefined
                      /\ promisedInstance'[f] = None
      ]_vars

\* The builds of singleton f that completed with a value, undefined included,
\* since the last dispose: what a cache that does not look at the value holds.
BuiltSinceDispose(f) ==
    {b \in BuildsOf(f) : builds[b].st = "fulfilled" /\ builds[b].epoch = nDispose}

\* The step is a module.dispose() in which every user dispose function called
\* returned.
DisposeReturned ==
    /\ Dispose(1, "none")
    /\ LET s == DisposeAll(Selected(Registry, "none"), Slots(None))
       IN  /\ promisedInstance' = s.promised
           /\ resolvedInstance' = s.resolved
           /\ disposeCalls' = s.calls

\* C37: singleton caching does not depend on the value built: also when the
\* build function returns undefined the value counts as cached, a get made
\* after the build completed does not invoke the build function again unless
\* the module was disposed in between, and dispose passes the value to the
\* user's dispose function.
C37_CachesAnyValue ==
    [][ /\ \A f \in SingletonsOf(Registry) :
            \A b \in BuildsOf(f), t \in DOMAIN tasks' :
                ( /\ builds[b].st = "fulfilled"
                  /\ tasks'[t].fac = f
                  /\ b \in tasks'[t].done
                  /\ tasks'[t].epoch = builds[b].epoch )
                => \A c \in DOMAIN builds' :
                       builds'[c].by = t => builds'[c].epoch # builds[b].epoch
        /\ DisposeReturned =>
            \A f \in SingletonsOf(Registry) :
                \A b \in BuiltSinceDispose(f) :
                    \E i \in DOMAIN NewDisposeCalls :
                        NewDisposeCalls[i] = <<f, builds[b].val>>
      ]_vars

\* The singleton factories contained in both modules.
SharedSingletons == SingletonsOf(modules[1]) \cap SingletonsOf(modules[2])

\* C38: the cache of a singleton belongs to the factory object, not to a
\* module: when two modules contain the same singleton factory, the get calls
\* on either module share one build and one cached value (between two
\* disposes the factory is built at most once across both, a failed build
\* aside, and every call resolves to the value of a build of the factory),
\* and a dispose of either module clears the cache the other one sees.
C38_CacheSharedAcrossModules ==
    [][ /\ \A f \in SharedSingletons :
            /\ \A b, c \in {x \in DOMAIN builds' : builds'[x].fac = f} :
                  ( /\ builds'[b].epoch = builds'[c].epoch
                    /\ builds'[b].st # "rejected" /\ builds'[c].st # "rejected" )
                  => b = c
            /\ \A t \in DOMAIN tasks' :
                  (tasks'[t].fac = f /\ tasks'[t].st = "fulfilled") =>
                      \E b \in DOMAIN builds' :
                          builds'[b].fac = f /\ builds'[b].val = tasks'[t].val
        /\ \A m \in DOMAIN modules :
            Dispose(m, "none") =>
                \A f \in SharedSingletons :
                    /\ resolvedInstance'[f] = Undefined
                    /\ promisedInstance'[f] = None
      ]_vars

RECURSIVE FirstOccurrences(_, _)
\* The symbols of the keys the factories of flat provide, each at the place of
\* its first occurrence.
FirstOccurrences(flat, seen) ==
    IF flat = <<>> THEN <<>>
    ELSE IF Provides(Head(flat)).symbol \in seen
    THEN FirstOccurrences(Tail(flat), seen)
    ELSE <<Provides(Head(flat)).symbol>>
            \o FirstOccurrences(Tail(flat), seen \cup {Provides(Head(flat)).symbol})

\* C39: the order of module.factories is the order of first occurrence of each
\* provided key in the flattened input: a factory that overrides an earlier
\* one for the same key stands at the place of the earlier one, not where it
\* was registered, and keys without duplicates keep their input order.
C39_OrderOfFirstOccurrence ==
    fromCall.called =>
        LET flat == flattened(fromCall.entries)
        IN  /\ [i \in DOMAIN Validated |-> Provides(Validated[i]).symbol]
                  = FirstOccurrences(flat, {})
            /\ \A i \in DOMAIN Validated :
                  \E n \in DOMAIN flat :
                      /\ flat[n] = Validated[i]
                      /\ \A k \in (n + 1)..Len(flat) :
                            Provides(flat[k]).symbol # Provides(flat[n]).symbol

\* from was given a module of two factories and then a factory that overrides
\* the first of them: the overriding factory, last in the input, stands first
\* in the result, before the factory of the other key.
C39_Witness ==
    /\ fromCall.called /\ fromCall.result.ok
    /\ LET flat == flattened(fromCall.entries)
       IN  /\ Len(flat) = 3 /\ Len(Validated) = 2
           /\ Provides(flat[3]).symbol = Provides(flat[1]).symbol
           /\ flat[3] # flat[1]
           /\ Validated = <<flat[3], flat[2]>>
====
